---- MODULE Spec2Model ----
(***************************************************************************)
(* Model of gologloki, the Loki adapter for golog: Log (filter, format,    *)
(* non-blocking enqueue), the batchProcessor worker (select over the       *)
(* queue, the ticker and quit), flush (copy-and-clear, grouping into       *)
(* streams), sendWithRetry and send.                                       *)
(*                                                                         *)
(* Text is modelled as a sequence of characters, each character a one-     *)
(* character string; the atoms "<FF>" and "<FE>" stand for the single      *)
(* bytes 0xFF and 0xFE, which are not valid UTF-8.  Map keys are kept as   *)
(* whole strings and appear as one token where they are written into JSON. *)
(***************************************************************************)
EXTENDS Integers, Sequences, FiniteSets, TLC

VARIABLES
    cfg,          \* *LokiConfig, immutable after construction
    queue,        \* a.queue: buffered channel of lokiLogEntry
    quit,         \* a.quit is closed
    bufferMutex,  \* a.bufferMutex: "free" or the holder
    buffer,       \* a.buffer
    sinceFlush,   \* time.Since(a.lastFlush), saturated at cfg.BatchInterval
    tickerC,      \* ticker.C (capacity 1) holds a tick
    tickPhase,    \* time since the ticker last fired; -1 before NewTicker
    pc,           \* position of the batchProcessor goroutine
    entry,        \* batchProcessor: entry received from the queue
    bufferLen,    \* batchProcessor: bufferLen read under the mutex
    ret,          \* where flush returns to: "loop" or "exit"
    bufferCopy,   \* flush: bufferCopy
    payload,      \* flush: payload (the set of its streams)
    attempt,      \* sendWithRetry: loop variable
    ok,           \* flush: result of sendWithRetry
    sent,         \* history: payloads handed to sendWithRetry, in order
    attempts,     \* history: results of the send calls of the current batch
    sleeps,       \* history: durations slept by the current sendWithRetry
    seq,          \* number of entries enqueued so far (stamps the next one)
    lastLog,      \* history: the last call of Log (its record, the queue full or not)
    quitSeq,      \* history: seq when a.quit was closed, -1 before
    waited        \* history: time since the last enqueue, where it is measured

vars == << cfg, queue, quit, bufferMutex, buffer, sinceFlush, tickerC,
           tickPhase, pc, entry, bufferLen, ret, bufferCopy, payload,
           attempt, ok, sent, attempts, sleeps, seq, lastLog, quitSeq, waited >>

----------------------------------------------------------------------------
(* Maps (Go map[string]...) as functions on a finite set of keys.          *)

EmptyMap == << >>

Put(m, k, v) == [x \in (DOMAIN m) \cup {k} |-> IF x = k THEN v ELSE m[x]]

\* Key universe, in the byte order json.Marshal sorts map keys by.
KeyOrder == << "a", "b", "job", "level", "logger_name" >>

Keys == { KeyOrder[i] : i \in 1..Len(KeyOrder) }

SortedKeys(S) == SelectSeq(KeyOrder, LAMBDA k : k \in S)

RECURSIVE Flatten(_)
Flatten(ss) == IF ss = << >> THEN << >> ELSE Head(ss) \o Flatten(Tail(ss))

----------------------------------------------------------------------------
(* golog.Level: the levels, IsEnabled and String.                          *)

Levels == { "debug", "info", "error" }

LevelRank(l) == CASE l = "debug" -> 0 [] l = "info" -> 1 [] OTHER -> 2

IsEnabled(min, l) == LevelRank(l) >= LevelRank(min)

LevelString(l) ==
    CASE l = "debug" -> << "d", "e", "b", "u", "g" >>
      [] l = "info"  -> << "i", "n", "f", "o" >>
      [] OTHER       -> << "e", "r", "r", "o", "r" >>

----------------------------------------------------------------------------
(* fmt.Sprintf verbs used by convertToString.                              *)

DigitChars == << "0", "1", "2", "3", "4", "5", "6", "7", "8", "9" >>

RECURSIVE NatToString(_)
NatToString(n) ==
    IF n < 10 THEN << DigitChars[n + 1] >>
    ELSE Append(NatToString(n \div 10), DigitChars[(n % 10) + 1])

\* %d
IntToString(n) == IF n < 0 THEN << "-" >> \o NatToString(-n) ELSE NatToString(n)

\* %f of a float holding a whole number: six decimals
FloatToString(n) == IntToString(n) \o << ".", "0", "0", "0", "0", "0", "0" >>

\* %t
BoolToString(b) == IF b THEN << "t", "r", "u", "e" >>
                        ELSE << "f", "a", "l", "s", "e" >>

(* A field value (interface{}): kind is "string", "int", "float", "bool",  *)
(* "list" (a slice: not a primitive, marshals to JSON) or "func" (not a    *)
(* primitive, json.Marshal fails on it).                                   *)
Val(kind, n, s, b) == [kind |-> kind, n |-> n, s |-> s, b |-> b]
StrVal(s)   == Val("string", 0, s, FALSE)
IntVal(n)   == Val("int", n, << >>, FALSE)
FloatVal(n) == Val("float", n, << >>, FALSE)
BoolVal(b)  == Val("bool", 0, << >>, b)
ListVal     == Val("list", 0, << >>, FALSE)
FuncVal     == Val("func", 0, << >>, FALSE)

\* convertToString's second result
IsPrimitive(v) == v.kind \in { "string", "int", "float", "bool" }

\* convertToString's first result
convertToString(v) ==
    CASE v.kind = "string" -> v.s
      [] v.kind = "int"    -> IntToString(v.n)
      [] v.kind = "float"  -> FloatToString(v.n)
      [] v.kind = "bool"   -> BoolToString(v.b)
      [] OTHER             -> << >>

----------------------------------------------------------------------------
(* encoding/json as Log and flush use it.                                  *)

InvalidBytes == { "<FF>", "<FE>" }

\* One character of a JSON string: quotes and backslashes are escaped, the
\* HTML characters are written as \u00XX, a byte that is not valid UTF-8 is
\* replaced by the escape of U+FFFD.
JsonChar(c) ==
    CASE c = "\""          -> << "\\", "\"" >>
      [] c = "\\"          -> << "\\", "\\" >>
      [] c = "<"           -> << "\\", "u", "0", "0", "3", "c" >>
      [] c = ">"           -> << "\\", "u", "0", "0", "3", "e" >>
      [] c = "&"           -> << "\\", "u", "0", "0", "2", "6" >>
      [] c \in InvalidBytes -> << "\\", "u", "f", "f", "f", "d" >>
      [] OTHER             -> << c >>

JsonString(s) ==
    << "\"" >> \o Flatten([i \in 1..Len(s) |-> JsonChar(s[i])]) \o << "\"" >>

JsonKey(k) == << "\"", k, "\"" >>

\* json.Marshal of a field value that it supports
JsonValue(v) ==
    CASE v.kind = "string" -> JsonString(v.s)
      [] v.kind = "int"    -> IntToString(v.n)
      [] v.kind = "float"  -> IntToString(v.n)
      [] v.kind = "bool"   -> BoolToString(v.b)
      [] OTHER             -> << "[", "]" >>

RECURSIVE JsonMembers(_, _)
JsonMembers(ks, enc) ==
    IF ks = << >> THEN << >>
    ELSE JsonKey(Head(ks)) \o << ":" >> \o enc[Head(ks)]
         \o (IF Len(ks) > 1 THEN << "," >> ELSE << >>)
         \o JsonMembers(Tail(ks), enc)

\* json.Marshal of a map whose values are encoded as enc: members in sorted
\* key order
JsonObject(enc) ==
    << "{" >> \o JsonMembers(SortedKeys(DOMAIN enc), enc) \o << "}" >>

\* json.Marshal(entry.Labels): map[string]string
MarshalLabels(labels) ==
    JsonObject([k \in DOMAIN labels |-> JsonString(labels[k])])

\* json.Marshal(jsonFields) fails when a value is not supported
MarshalFieldsFails(m) == \E k \in DOMAIN m : m[k].kind = "func"

MarshalFields(m) == JsonObject([k \in DOMAIN m |-> JsonValue(m[k])])

----------------------------------------------------------------------------
(* A golog.Log record, as Log reads it.  Fields = EmptyMap stands for a   *)
(* nil map as well; HasError is Data.Error != nil.                         *)

LogRecord(ts, level, message, name, withName, fields, hasError, errText) ==
    [ Timestamp |-> ts, Level |-> level, Message |-> message, Name |-> name,
      WithName |-> withName, Fields |-> fields, HasError |-> hasError,
      ErrorText |-> errText ]

\* The prefix fmt.Sprintf("[%s]: ", name)
NamePrefix(name) == << "[" >> \o name \o << "]", ":", " " >>

\* Format: rewrites log.Data.Name and log.Message in place
Format(log) ==
    IF log.Name /= << >>
    THEN [log EXCEPT !.Name = NamePrefix(log.Name),
                     !.Message = NamePrefix(log.Name) \o log.Message]
    ELSE log

\* Log, lines 43-45: the static labels
StaticLabels(c) == c.Labels

\* Mutant of FieldLabels: a field does not replace a static label
FieldLabelsKeepingStatic(labels, fields) ==
    [k \in (DOMAIN labels) \cup { f \in DOMAIN fields : IsPrimitive(fields[f]) } |->
        IF k \in DOMAIN labels THEN labels[k] ELSE convertToString(fields[k])]

\* Log, lines 47-53: every field convertToString accepts becomes a label
FieldLabels(labels, fields) ==
    [k \in (DOMAIN labels) \cup { f \in DOMAIN fields : IsPrimitive(fields[f]) } |->
        IF k \in DOMAIN fields /\ IsPrimitive(fields[k])
        THEN convertToString(fields[k])
        ELSE labels[k]]

\* Log, lines 55-57: log is the record after Format
NameLabel(labels, log) ==
    IF log.WithName /\ log.Name /= << >>
    THEN Put(labels, "logger_name", log.Name)
    ELSE labels

\* Log, line 59
LevelLabel(labels, log) == Put(labels, "level", LevelString(log.Level))

\* Log, lines 43-59: entry.Labels
EntryLabels(c, log) ==
    LevelLabel(NameLabel(FieldLabels(StaticLabels(c), log.Fields), log), log)

\* Log, lines 61-71: the message and the error text
MessageAndError(log) ==
    IF log.HasError
    THEN log.Message \o (IF Len(log.Message) > 0 THEN << " ", "-", " " >> ELSE << >>)
         \o << "E", "r", "r", "o", "r", ":", " " >> \o log.ErrorText
    ELSE log.Message

\* Log, lines 74-79: the fields whose key is not a label
JsonFields(labels, fields) ==
    [k \in { f \in DOMAIN fields : f \notin DOMAIN labels } |-> fields[k]]

\* Log, lines 61-92: entry.Line
EntryLine(labels, log) ==
    LET text == MessageAndError(log)
        jsonFields == JsonFields(labels, log.Fields)
    IN  IF DOMAIN jsonFields /= {} /\ ~MarshalFieldsFails(jsonFields)
        THEN text \o (IF Len(text) > 0 THEN << " ", "|", " " >> ELSE << >>)
             \o MarshalFields(jsonFields)
        ELSE text

\* Log, lines 35-92: the entry built from an accepted record
NewEntry(c, rec) ==
    LET log == Format(rec)
        labels == EntryLabels(c, log)
    IN  [ Timestamp |-> log.Timestamp,
          Level     |-> LevelString(log.Level),
          Labels    |-> labels,
          Line      |-> EntryLine(labels, log) ]

\* Mutant of Accepted: the level is not compared with the minimum level
AcceptedAnyLevel(c, rec) == c.Enable

\* Log, line 31: the record passes the filter
Accepted(c, rec) == c.Enable /\ IsEnabled(c.Level, rec.Level)

----------------------------------------------------------------------------
(* flush, lines 178-211: grouping the snapshot into streams.               *)

\* Mutant of AddToStreams: the value replaces the stream's values
AddToStreamsReplacing(streams, e) ==
    Put(streams, MarshalLabels(e.Labels),
        [Stream |-> e.Labels,
         Values |-> << << IntToString(e.Timestamp), e.Line >> >>])

\* Mutant of AddToStreams: the value is put before the stream's values
AddToStreamsPrepending(streams, e) ==
    LET labelsKey == MarshalLabels(e.Labels)
        stream == IF labelsKey \in DOMAIN streams
                  THEN streams[labelsKey]
                  ELSE [Stream |-> e.Labels, Values |-> << >>]
        value == << IntToString(e.Timestamp), e.Line >>
    IN  Put(streams, labelsKey, [stream EXCEPT !.Values = << value >> \o @])

\* flush, lines 181-202: one iteration of the loop over bufferCopy
AddToStreams(streams, e) ==
    LET labelsKey == MarshalLabels(e.Labels)
        stream == IF labelsKey \in DOMAIN streams
                  THEN streams[labelsKey]
                  ELSE [Stream |-> e.Labels, Values |-> << >>]
        value == << IntToString(e.Timestamp), e.Line >>
    IN  Put(streams, labelsKey, [stream EXCEPT !.Values = Append(@, value)])

\* flush, lines 178-203: the streams map after the loop
RECURSIVE GroupStreams(_, _)
GroupStreams(streams, entries) ==
    IF entries = << >> THEN streams
    ELSE GroupStreams(AddToStreams(streams, Head(entries)), Tail(entries))

\* flush, lines 205-211: payload.Streams, whose order (a map iteration) is
\* unspecified, as the set of its streams
BuildPayload(entries) ==
    LET streams == GroupStreams(EmptyMap, entries)
    IN  { streams[k] : k \in DOMAIN streams }

----------------------------------------------------------------------------
(* Construction.                                                           *)

LokiConfig(enable, level, labels, batchSize, batchInterval, retryCount, retryDelay) ==
    [ Enable |-> enable, Level |-> level, Labels |-> labels,
      BatchSize |-> batchSize, BatchInterval |-> batchInterval,
      RetryCount |-> retryCount, RetryDelay |-> retryDelay ]

\* defaultLokiConfig: Labels
DefaultLabels == ("job" :> << "a", "p", "p", "_", "l", "o", "g", "s" >>)

\* NewLokiAdapter: make(chan lokiLogEntry, cfg.BatchSize*10)
QueueFactor == 10

QueueCap(c) == c.BatchSize * QueueFactor

NoEntry == [ Timestamp |-> 0, Level |-> << >>, Labels |-> EmptyMap, Line |-> << >> ]

\* lastLog before the first call
NoLog == [ rec |-> LogRecord(0, "debug", << >>, << >>, FALSE, EmptyMap, FALSE, << >>),
           full |-> FALSE, called |-> FALSE ]

\* NewLokiAdapter, and the goroutine it starts, before batchProcessor's
\* first statement
NewLokiAdapter(c) ==
    /\ cfg = c
    /\ queue = << >>
    /\ quit = FALSE
    /\ bufferMutex = "free"
    /\ buffer = << >>
    /\ sinceFlush = 0
    /\ tickerC = FALSE
    /\ tickPhase = -1
    /\ pc = "start"
    /\ entry = NoEntry
    /\ bufferLen = 0
    /\ ret = "loop"
    /\ bufferCopy = << >>
    /\ payload = {}
    /\ attempt = 0
    /\ ok = FALSE
    /\ sent = << >>
    /\ attempts = << >>
    /\ sleeps = << >>
    /\ seq = 0
    /\ lastLog = NoLog
    /\ quitSeq = -1
    /\ waited = 0

----------------------------------------------------------------------------
(* Producers.                                                              *)

\* Mutant of Enqueue: a full queue evicts its oldest entry
EnqueueEvicting(q, e, cap) ==
    IF Len(q) < cap THEN Append(q, e) ELSE Append(Tail(q), e)

\* Log, lines 94-98: the non-blocking send on a.queue
Enqueue(q, e, cap) == IF Len(q) < cap THEN Append(q, e) ELSE q

\* Mutant of Log: the send on a.queue has no default case
LogBlocking(rec) ==
    LET log == [rec EXCEPT !.Timestamp = seq + 1]
    IN  /\ Accepted(cfg, log) => Len(queue) < QueueCap(cfg)
        /\ queue' = IF Accepted(cfg, log)
                    THEN Append(queue, NewEntry(cfg, log))
                    ELSE queue
        /\ seq' = IF queue' /= queue THEN seq + 1 ELSE seq
        /\ waited' = IF queue' /= queue THEN 0 ELSE waited
        /\ lastLog' = [ rec |-> log, full |-> Len(queue) >= QueueCap(cfg),
                        called |-> TRUE ]
        /\ UNCHANGED << cfg, quit, bufferMutex, buffer, sinceFlush, tickerC,
                        tickPhase, pc, entry, bufferLen, ret, bufferCopy,
                        payload, attempt, ok, sent, attempts, sleeps, quitSeq >>

\* Log: the whole call, for a record stamped with the next serial
Log(rec) ==
    LET log == [rec EXCEPT !.Timestamp = seq + 1]
    IN  /\ queue' = IF Accepted(cfg, log)
                    THEN Enqueue(queue, NewEntry(cfg, log), QueueCap(cfg))
                    ELSE queue
        /\ seq' = IF queue' /= queue THEN seq + 1 ELSE seq
        /\ waited' = IF queue' /= queue THEN 0 ELSE waited
        /\ lastLog' = [ rec |-> log, full |-> Len(queue) >= QueueCap(cfg),
                        called |-> TRUE ]
        /\ UNCHANGED << cfg, quit, bufferMutex, buffer, sinceFlush, tickerC,
                        tickPhase, pc, entry, bufferLen, ret, bufferCopy,
                        payload, attempt, ok, sent, attempts, sleeps, quitSeq >>

----------------------------------------------------------------------------
(* Time, the ticker and the shutdown signal.                               *)

Min(a, b) == IF a < b THEN a ELSE b

\* One unit of time passes: time.Since(lastFlush) grows, and the ticker
\* fires every BatchInterval; a tick that finds ticker.C full is dropped.
TimePasses ==
    /\ sinceFlush' = Min(sinceFlush + 1, cfg.BatchInterval)
    /\ tickPhase' = IF tickPhase = -1 THEN -1
                    ELSE (tickPhase + 1) % cfg.BatchInterval
    /\ tickerC' = (tickerC \/ tickPhase' = 0)
    /\ UNCHANGED << cfg, queue, quit, bufferMutex, buffer, pc, entry, bufferLen,
                    ret, bufferCopy, payload, attempt, ok, sent, attempts,
                    sleeps, seq, lastLog, quitSeq >>

\* Time passes at any moment, whatever the worker is doing
Advance == TimePasses /\ UNCHANGED waited

\* The worker has nothing to do: it is blocked in select with no case
\* ready, or it has returned
WorkerWaits ==
    \/ pc = "done"
    \/ pc = "select" /\ queue = << >> /\ ~tickerC /\ ~quit

\* Time passes only while the worker has nothing to do (a worker that
\* handles every event as soon as it is ready, sends included); the time
\* since the last enqueue is measured up to 2*BatchInterval
Elapse ==
    /\ WorkerWaits
    /\ TimePasses
    /\ waited' = Min(waited + 1, 2 * cfg.BatchInterval)

\* The shutdown signal: close(a.quit)
Shutdown ==
    /\ ~quit
    /\ quit' = TRUE
    /\ quitSeq' = seq
    /\ UNCHANGED << cfg, queue, bufferMutex, buffer, sinceFlush, tickerC,
                    tickPhase, pc, entry, bufferLen, ret, bufferCopy, payload,
                    attempt, ok, sent, attempts, sleeps, seq, lastLog, waited >>

----------------------------------------------------------------------------
(* batchProcessor: the worker goroutine.                                   *)

\* batchProcessor, line 131: time.NewTicker(a.cfg.BatchInterval)
StartWorker ==
    /\ pc = "start"
    /\ tickPhase' = 0
    /\ pc' = "select"
    /\ UNCHANGED << cfg, queue, quit, bufferMutex, buffer, sinceFlush, tickerC,
                    entry, bufferLen, ret, bufferCopy, payload, attempt, ok,
                    sent, attempts, sleeps, seq, lastLog, quitSeq, waited >>

\* line 136: case entry := <-a.queue
RecvEntry ==
    /\ pc = "select"
    /\ queue /= << >>
    /\ entry' = Head(queue)
    /\ queue' = Tail(queue)
    /\ pc' = "appendLock"
    /\ UNCHANGED << cfg, quit, bufferMutex, buffer, sinceFlush, tickerC,
                    tickPhase, bufferLen, ret, bufferCopy, payload, attempt,
                    ok, sent, attempts, sleeps, seq, lastLog, quitSeq, waited >>

\* lines 137-138: Lock and append
AppendLocked ==
    /\ pc = "appendLock"
    /\ bufferMutex = "free"
    /\ bufferMutex' = "worker"
    /\ buffer' = Append(buffer, entry)
    /\ entry' = NoEntry
    /\ pc' = "appendUnlock"
    /\ UNCHANGED << cfg, queue, quit, sinceFlush, tickerC, tickPhase,
                    bufferLen, ret, bufferCopy, payload, attempt, ok, sent,
                    attempts, sleeps, seq, lastLog, quitSeq, waited >>

\* Mutant of SizeTrigger: the buffer must exceed BatchSize
SizeTriggerAbove(buf, c) == Len(buf) > c.BatchSize

\* Mutant of SizeTrigger: the size of the buffer triggers no flush
SizeTriggerNever(buf, c) == FALSE

\* line 141: the size trigger
SizeTrigger(buf, c) == Len(buf) >= c.BatchSize

\* lines 139-143: Unlock, then flush when the size trigger holds
AppendUnlock ==
    /\ pc = "appendUnlock"
    /\ bufferMutex' = "free"
    /\ pc' = IF SizeTrigger(buffer, cfg) THEN "flush" ELSE "select"
    /\ ret' = "loop"
    /\ UNCHANGED << cfg, queue, quit, buffer, sinceFlush, tickerC, tickPhase,
                    entry, bufferLen, bufferCopy, payload, attempt, ok, sent,
                    attempts, sleeps, seq, lastLog, quitSeq, waited >>

\* line 145: case <-ticker.C
RecvTick ==
    /\ pc = "select"
    /\ tickerC
    /\ tickerC' = FALSE
    /\ pc' = "tickLock"
    /\ UNCHANGED << cfg, queue, quit, bufferMutex, buffer, sinceFlush,
                    tickPhase, entry, bufferLen, ret, bufferCopy, payload,
                    attempt, ok, sent, attempts, sleeps, seq, lastLog, quitSeq, waited >>

\* lines 146-148: Lock, read len(a.buffer) and a.lastFlush
TickLocked ==
    /\ pc = "tickLock"
    /\ bufferMutex = "free"
    /\ bufferMutex' = "worker"
    /\ bufferLen' = Len(buffer)
    /\ pc' = "tickUnlock"
    /\ UNCHANGED << cfg, queue, quit, buffer, sinceFlush, tickerC, tickPhase,
                    entry, ret, bufferCopy, payload, attempt, ok, sent,
                    attempts, sleeps, seq, lastLog, quitSeq, waited >>

\* Mutant of TimeTrigger: the time since lastFlush is not looked at
TimeTriggerAnyTime(len, since, c) == len > 0

\* line 151: the time trigger; since is time.Since(lastFlush)
TimeTrigger(len, since, c) == len > 0 /\ since >= c.BatchInterval

\* lines 149-153: Unlock, then flush when the time trigger holds
TickUnlock ==
    /\ pc = "tickUnlock"
    /\ bufferMutex' = "free"
    /\ pc' = IF TimeTrigger(bufferLen, sinceFlush, cfg) THEN "flush" ELSE "select"
    /\ ret' = "loop"
    /\ bufferLen' = 0
    /\ UNCHANGED << cfg, queue, quit, buffer, sinceFlush, tickerC, tickPhase,
                    entry, bufferCopy, payload, attempt, ok, sent,
                    attempts, sleeps, seq, lastLog, quitSeq, waited >>

\* line 154: case <-a.quit
RecvQuit ==
    /\ pc = "select"
    /\ quit
    /\ pc' = "quitLock"
    /\ UNCHANGED << cfg, queue, quit, bufferMutex, buffer, sinceFlush, tickerC,
                    tickPhase, entry, bufferLen, ret, bufferCopy, payload,
                    attempt, ok, sent, attempts, sleeps, seq, lastLog, quitSeq, waited >>

\* lines 155-156: Lock, read len(a.buffer)
QuitLocked ==
    /\ pc = "quitLock"
    /\ bufferMutex = "free"
    /\ bufferMutex' = "worker"
    /\ bufferLen' = Len(buffer)
    /\ pc' = "quitUnlock"
    /\ UNCHANGED << cfg, queue, quit, buffer, sinceFlush, tickerC, tickPhase,
                    entry, ret, bufferCopy, payload, attempt, ok, sent,
                    attempts, sleeps, seq, lastLog, quitSeq, waited >>

\* lines 157-161: Unlock, the final flush when the buffer is not empty, return
QuitUnlock ==
    /\ pc = "quitUnlock"
    /\ bufferMutex' = "free"
    /\ pc' = IF bufferLen > 0 THEN "flush" ELSE "done"
    /\ ret' = "exit"
    /\ bufferLen' = 0
    /\ UNCHANGED << cfg, queue, quit, buffer, sinceFlush, tickerC, tickPhase,
                    entry, bufferCopy, payload, attempt, ok, sent,
                    attempts, sleeps, seq, lastLog, quitSeq, waited >>

----------------------------------------------------------------------------
(* flush, sendWithRetry and send, run by the worker.                       *)

\* Mutant of Return: flush returns into the loop of a worker that is leaving
ReturnToLoop(r) == "select"

\* Mutant of Return: a flush that returns starts another flush
ReturnIntoFlush(r) == "flush"

\* Where the worker continues when flush returns
Return(r) == IF r = "exit" THEN "done" ELSE "select"

\* Mutant of FlushLocked: the buffer is copied and not cleared
FlushLockedKeepingBuffer ==
    /\ pc = "flush"
    /\ IF Len(buffer) = 0
       THEN /\ pc' = Return(ret)
            /\ UNCHANGED << bufferMutex, bufferCopy, buffer >>
       ELSE /\ bufferMutex = "free"
            /\ bufferMutex' = "worker"
            /\ bufferCopy' = buffer
            /\ buffer' = buffer
            /\ pc' = "flushUnlock"
    /\ UNCHANGED << cfg, queue, quit, sinceFlush, tickerC, tickPhase, entry,
                    bufferLen, ret, payload, attempt, ok, sent, attempts,
                    sleeps, seq, lastLog, quitSeq, waited >>

\* flush, lines 168-175: return on an empty buffer, else Lock, copy, clear
FlushLocked ==
    /\ pc = "flush"
    /\ IF Len(buffer) = 0
       THEN /\ pc' = Return(ret)
            /\ UNCHANGED << bufferMutex, bufferCopy, buffer >>
       ELSE /\ bufferMutex = "free"
            /\ bufferMutex' = "worker"
            /\ bufferCopy' = buffer
            /\ buffer' = << >>
            /\ pc' = "flushUnlock"
    /\ UNCHANGED << cfg, queue, quit, sinceFlush, tickerC, tickPhase, entry,
                    bufferLen, ret, payload, attempt, ok, sent, attempts,
                    sleeps, seq, lastLog, quitSeq, waited >>

\* Mutant of FlushUnlock: the mutex is kept while the payload is built and sent
FlushUnlockHolding ==
    /\ pc = "flushUnlock"
    /\ bufferMutex' = bufferMutex
    /\ payload' = BuildPayload(bufferCopy)
    /\ bufferCopy' = << >>
    /\ pc' = "send"
    /\ UNCHANGED << cfg, queue, quit, buffer, sinceFlush, tickerC, tickPhase,
                    entry, bufferLen, ret, attempt, ok, sent,
                    attempts, sleeps, seq, lastLog, quitSeq, waited >>

\* flush, lines 176-211: Unlock, build the payload
FlushUnlock ==
    /\ pc = "flushUnlock"
    /\ bufferMutex' = "free"
    /\ payload' = BuildPayload(bufferCopy)
    /\ bufferCopy' = << >>
    /\ pc' = "send"
    /\ UNCHANGED << cfg, queue, quit, buffer, sinceFlush, tickerC, tickPhase,
                    entry, bufferLen, ret, attempt, ok, sent,
                    attempts, sleeps, seq, lastLog, quitSeq, waited >>

\* flush, line 213, and sendWithRetry, line 222: the call, attempt := 0
SendBegin ==
    /\ pc = "send"
    /\ sent' = Append(sent, payload)
    /\ payload' = {}
    /\ attempt' = 0
    /\ attempts' = << >>
    /\ sleeps' = << >>
    /\ pc' = "retryLoop"
    /\ UNCHANGED << cfg, queue, quit, bufferMutex, buffer, sinceFlush, tickerC,
                    tickPhase, entry, bufferLen, ret, bufferCopy, ok, seq,
                    lastLog, quitSeq, waited >>

\* sendWithRetry, lines 222-225 and 230-231: the loop condition, the
\* sleep before a retry, and the return after the loop
RetryLoop ==
    /\ pc = "retryLoop"
    /\ IF attempt <= cfg.RetryCount
       THEN /\ sleeps' = IF attempt > 0
                         THEN Append(sleeps, cfg.RetryDelay * attempt)
                         ELSE sleeps
            /\ pc' = "inSend"
            /\ ok' = ok
       ELSE /\ ok' = TRUE
            /\ pc' = "flushRet"
            /\ sleeps' = sleeps
    /\ UNCHANGED << cfg, queue, quit, bufferMutex, buffer, sinceFlush, tickerC,
                    tickPhase, entry, bufferLen, ret, bufferCopy, payload,
                    attempt, sent, attempts, seq, lastLog, quitSeq, waited >>

\* sendWithRetry, line 227: what follows one call of send with result res:
\* `return a.send(payload)` leaves the loop whatever the result
AfterSend(res, att) == [ pc |-> "flushRet", ok |-> res, attempt |-> att ]

\* send, lines 235-263, and line 227: the backend answers (res is TRUE for
\* a status in [200, 300), FALSE for any other status or a transport error)
SendReturn(res) ==
    /\ pc = "inSend"
    /\ attempts' = Append(attempts, res)
    /\ pc' = AfterSend(res, attempt).pc
    /\ ok' = AfterSend(res, attempt).ok
    /\ attempt' = AfterSend(res, attempt).attempt
    /\ UNCHANGED << cfg, queue, quit, bufferMutex, buffer, sinceFlush, tickerC,
                    tickPhase, entry, bufferLen, ret, bufferCopy, payload,
                    sent, sleeps, seq, lastLog, quitSeq, waited >>

\* Mutant of FlushRet: lastFlush is set whatever sendWithRetry reported
FlushRetStampingFailure ==
    /\ pc = "flushRet"
    /\ bufferMutex = "free"
    /\ bufferMutex' = "worker"
    /\ sinceFlush' = 0
    /\ pc' = "stampUnlock"
    /\ UNCHANGED << attempt, ok, attempts, sleeps >>
    /\ UNCHANGED << cfg, queue, quit, buffer, tickerC, tickPhase, entry,
                    bufferLen, ret, bufferCopy, payload, sent, seq, lastLog, quitSeq, waited >>

\* flush, lines 213-215: on success Lock and set lastFlush = time.Now();
\* on failure return (the locals of flush and sendWithRetry die)
FlushRet ==
    /\ pc = "flushRet"
    /\ IF ok
       THEN /\ bufferMutex = "free"
            /\ bufferMutex' = "worker"
            /\ sinceFlush' = 0
            /\ pc' = "stampUnlock"
            /\ UNCHANGED << attempt, ok, attempts, sleeps >>
       ELSE /\ pc' = Return(ret)
            /\ attempt' = 0
            /\ ok' = FALSE
            /\ attempts' = << >>
            /\ sleeps' = << >>
            /\ UNCHANGED << bufferMutex, sinceFlush >>
    /\ UNCHANGED << cfg, queue, quit, buffer, tickerC, tickPhase, entry,
                    bufferLen, ret, bufferCopy, payload, sent, seq, lastLog, quitSeq, waited >>

\* flush, lines 216-218: Unlock and return
StampUnlock ==
    /\ pc = "stampUnlock"
    /\ bufferMutex' = "free"
    /\ pc' = Return(ret)
    /\ attempt' = 0
    /\ ok' = FALSE
    /\ attempts' = << >>
    /\ sleeps' = << >>
    /\ UNCHANGED << cfg, queue, quit, buffer, sinceFlush, tickerC, tickPhase,
                    entry, bufferLen, ret, bufferCopy, payload, sent, seq,
                    lastLog, quitSeq, waited >>

Worker ==
    \/ StartWorker
    \/ RecvEntry \/ AppendLocked \/ AppendUnlock
    \/ RecvTick \/ TickLocked \/ TickUnlock
    \/ RecvQuit \/ QuitLocked \/ QuitUnlock
    \/ FlushLocked \/ FlushUnlock \/ SendBegin \/ RetryLoop
    \/ (\E res \in BOOLEAN : SendReturn(res))
    \/ FlushRet \/ StampUnlock

----------------------------------------------------------------------------
(* The pipeline: producers, the worker, time and the shutdown signal.      *)

MaxBatchSize == 2
MaxRetryCount == 1
TickPeriod == 2
MaxLogs == 3

\* The configuration the others differ from in one field
BaseConfig == LokiConfig(TRUE, "info", DefaultLabels, MaxBatchSize, TickPeriod,
                         MaxRetryCount, 1)

Configs ==
    { BaseConfig, [BaseConfig EXCEPT !.Enable = FALSE],
      [BaseConfig EXCEPT !.Level = "debug"] }
    \cup { [BaseConfig EXCEPT !.BatchSize = bs] : bs \in 1..MaxBatchSize }
    \cup { [BaseConfig EXCEPT !.RetryCount = rc] : rc \in -1..MaxRetryCount }

Records ==
    { LogRecord(0, lv, << "m" >>, << >>, FALSE, EmptyMap, FALSE, << >>) :
        lv \in { "debug", "info" } }

Init == \E c \in Configs : NewLokiAdapter(c)

\* A call is within the budget max when it enqueues nothing or fewer
\* than max entries were enqueued so far
InBudget(rec, max) ==
    seq < max \/ ~Accepted(cfg, rec) \/ Len(queue) >= QueueCap(cfg)

Environment == Advance \/ Shutdown

Next ==
    \/ \E rec \in Records : InBudget(rec, MaxLogs) /\ Log(rec)
    \/ Worker
    \/ Environment

Spec == Init /\ [][Next]_vars

----------------------------------------------------------------------------
(* The same pipeline with the smallest queue (BatchSize 1, ten places) and *)
(* enough calls of Log to overflow it.                                     *)

MaxLogsQ == 11

InitQ == NewLokiAdapter([BaseConfig EXCEPT !.BatchSize = 1])

NextQ ==
    \/ \E rec \in Records : InBudget(rec, MaxLogsQ) /\ Log(rec)
    \/ Worker
    \/ Environment

SpecQ == InitQ /\ [][NextQ]_vars

----------------------------------------------------------------------------
(* The pipeline with a worker that is never late: time passes only while   *)
(* the worker waits.                                                       *)

NextTimed ==
    \/ \E rec \in Records : InBudget(rec, MaxLogs) /\ Log(rec)
    \/ Worker
    \/ Elapse
    \/ Shutdown

SpecTimed == Init /\ [][NextTimed]_vars

----------------------------------------------------------------------------
(* The pipeline with a worker that keeps running, sends that return and    *)
(* time that keeps passing.                                                *)

InitLive == NewLokiAdapter(BaseConfig)

SpecLive == InitLive /\ [][Next]_vars /\ WF_vars(Worker) /\ WF_vars(Advance)

----------------------------------------------------------------------------
(* Log on one record drawn from a wide set, under several static label     *)
(* maps, followed by the flush of its entry.                               *)

\* The worker without the ticker and the shutdown signal
Batching ==
    \/ StartWorker
    \/ RecvEntry \/ AppendLocked \/ AppendUnlock
    \/ FlushLocked \/ FlushUnlock \/ SendBegin \/ RetryLoop
    \/ (\E res \in BOOLEAN : SendReturn(res))
    \/ FlushRet \/ StampUnlock

FmtLabels ==
    { DefaultLabels,
      ("a" :> << "1" >>),
      ("a" :> << "1" >>) @@ ("level" :> << "x" >>) @@ ("logger_name" :> << "y" >>) }

FmtFields ==
    { EmptyMap,
      ("a" :> IntVal(2)),
      ("a" :> StrVal(<< "2" >>)),
      ("a" :> FloatVal(2)),
      ("a" :> ListVal),
      ("a" :> FuncVal),
      ("b" :> BoolVal(TRUE)),
      ("level" :> StrVal(<< "x" >>)),
      ("logger_name" :> IntVal(2)),
      ("a" :> IntVal(-12)) @@ ("b" :> ListVal),
      ("b" :> StrVal(<< "<", "<FF>", "\"" >>)) @@ ("job" :> FuncVal) }

FmtRecords ==
    { LogRecord(0, lv, msg, name, wn, fs, he, << "e" >>) :
        lv \in { "debug", "error" }, msg \in { << >>, << "m" >> },
        name \in { << >>, << "s" >> }, wn \in BOOLEAN, fs \in FmtFields,
        he \in BOOLEAN }

InitFmt ==
    \E labels \in FmtLabels :
        NewLokiAdapter([BaseConfig EXCEPT !.Labels = labels, !.BatchSize = 1])

NextFmt ==
    \/ \E rec \in FmtRecords : ~lastLog.called /\ Log(rec)
    \/ Batching

SpecFmt == InitFmt /\ [][NextFmt]_vars

----------------------------------------------------------------------------
(* Log on a few records whose label maps differ or coincide, followed by   *)
(* the flush that groups their entries.                                    *)

MaxLogsG == 3

GroupFields ==
    { EmptyMap,
      ("a" :> StrVal(<< "1" >>)),
      ("a" :> IntVal(1)),
      ("a" :> StrVal(<< "<FF>" >>)),
      ("a" :> StrVal(<< "<FE>" >>)),
      ("a" :> StrVal(<< "1" >>)) @@ ("b" :> StrVal(<< "1" >>)) }

GroupRecords ==
    { LogRecord(0, "info", << "m" >>, << >>, FALSE, fs, FALSE, << >>) :
        fs \in GroupFields }

InitGroup ==
    \E bs \in 1..MaxLogsG : NewLokiAdapter([BaseConfig EXCEPT !.BatchSize = bs])

NextGroup ==
    \/ \E rec \in GroupRecords : InBudget(rec, MaxLogsG) /\ Log(rec)
    \/ Batching

SpecGroup == InitGroup /\ [][NextGroup]_vars

----------------------------------------------------------------------------
(* What the claims speak of.                                               *)

\* The level strings of the levels the configured minimum enables
EnabledLevelStrings ==
    { LevelString(l) : l \in { x \in Levels : IsEnabled(cfg.Level, x) } }

\* A record that Log must discard
Discarded(rec) == ~cfg.Enable \/ ~IsEnabled(cfg.Level, rec.Level)

SeqRange(q) == { q[i] : i \in 1..Len(q) }

\* The entries between Log and the sender
PipelineEntries ==
    SeqRange(queue) \cup SeqRange(buffer) \cup SeqRange(bufferCopy)
    \cup (IF pc = "appendLock" THEN { entry } ELSE {})

\* The streams of every payload built so far
BuiltStreams == payload \cup UNION SeqRange(sent)

\* The last call of Log was made with the queue full
QueueFull == Len(queue) >= QueueCap(cfg)

----------------------------------------------------------------------------
(* C1: a call of Log made while the adapter is disabled, or with a level   *)
(* the minimum level does not enable, leaves the queue and the buffer      *)
(* unchanged, and no entry of such a record is ever in the queue, in the   *)
(* buffer or in a batch handed to the sender.                              *)
FilteredNeverEnqueued ==
    /\ [][ (lastLog' /= lastLog /\ Discarded(lastLog'.rec))
             => (queue' = queue /\ buffer' = buffer /\ sent' = sent) ]_vars
    /\ [](\A e \in PipelineEntries :
             cfg.Enable /\ e.Level \in EnabledLevelStrings)
    /\ [](\A st \in BuiltStreams :
             cfg.Enable /\ st.Stream["level"] \in EnabledLevelStrings)

\* A record was discarded by an adapter that has flushed a batch
FilteredWitness ==
    lastLog.called /\ Discarded(lastLog.rec) /\ cfg.Enable /\ sent /= << >>

(* C2: in every state of the adapter a call of Log can be taken, for every *)
(* record: it waits neither for room in the queue nor for the worker, the  *)
(* mutex or the backend.                                                   *)
LogNeverBlocks == \A rec \in Records : ENABLED Log(rec)

\* Log has returned with the queue full while the worker is inside a send
LogNeverBlocksWitness ==
    lastLog.called /\ lastLog.full /\ QueueFull /\ pc = "inSend"

(* C3: the queue never holds more than BatchSize*10 entries; an accepted   *)
(* record is dropped, with the queue unchanged, when the queue is full,    *)
(* and is appended at the tail otherwise.                                  *)
QueueOverflowDrops ==
    /\ [](Len(queue) <= cfg.BatchSize * 10)
    /\ [][ (lastLog' /= lastLog /\ ~Discarded(lastLog'.rec))
             => IF Len(queue) >= cfg.BatchSize * 10
                THEN queue' = queue
                ELSE queue' = Append(queue, NewEntry(cfg, lastLog'.rec)) ]_vars

\* An accepted record met a full queue
QueueOverflowWitness ==
    lastLog.called /\ lastLog.full /\ ~Discarded(lastLog.rec)
    /\ Len(queue) = cfg.BatchSize * 10

\* The timestamps of the entries of a sequence, and of a payload's values
EntryStamps(q) == { IntToString(q[i].Timestamp) : i \in 1..Len(q) }

PayloadStamps(p) == UNION { { st.Values[i][1] : i \in 1..Len(st.Values) } : st \in p }

\* The worker is at, or inside the handling of, an event other than a flush
AtEvent ==
    pc \in { "select", "appendLock", "tickLock", "tickUnlock", "quitLock",
             "quitUnlock" }

\* A flush hands the whole buffer to the sender: the copy takes every
\* buffered entry and clears the buffer, the payload holds every copied
\* entry, and that payload is what sendWithRetry gets
FlushTakesBuffer ==
    /\ (pc = "flush" /\ pc' /= pc /\ buffer /= << >>)
         => (bufferCopy' = buffer /\ buffer' = << >>)
    /\ (pc = "flushUnlock" /\ pc' /= pc)
         => PayloadStamps(payload') = EntryStamps(bufferCopy)
    /\ (pc = "send" /\ pc' /= pc) => sent' = Append(sent, payload)

(* C4: when the append of an entry brings the buffer to BatchSize entries  *)
(* or more, the worker flushes the whole buffer before it takes any other  *)
(* event, whatever the time since lastFlush: it never waits for or handles *)
(* an event with BatchSize entries buffered.                               *)
SizeTriggerFlushes ==
    /\ [](AtEvent => Len(buffer) < cfg.BatchSize)
    /\ [][ (pc = "appendUnlock" /\ pc' /= pc /\ Len(buffer) >= cfg.BatchSize)
             => (pc' = "flush" /\ buffer' = buffer) ]_vars
    /\ [][FlushTakesBuffer]_vars

\* BatchSize entries are in the first batch, being sent before any time
\* has passed
SizeTriggerWitness ==
    /\ pc = "inSend" /\ Len(sent) = 1
    /\ Cardinality(PayloadStamps(sent[1])) = cfg.BatchSize
    /\ sinceFlush = 0 /\ tickPhase = 0 /\ ~tickerC

(* C5, as claimed: when BatchSize-1 (at least one) entries were submitted  *)
(* and nothing more, a flush has taken them once BatchInterval has passed  *)
(* since the submission: a worker that is never late is not left waiting   *)
(* with these entries in its buffer.                                       *)
TimeTriggerWithinInterval ==
    ~ ( /\ pc = "select" /\ queue = << >> /\ ~tickerC /\ ~quit
        /\ waited >= cfg.BatchInterval /\ cfg.RetryCount >= 0
        /\ cfg.BatchSize > 1 /\ Len(buffer) = cfg.BatchSize - 1 )

(* C5, amended: a tick triggers a flush exactly when the buffer is not     *)
(* empty and at least BatchInterval has passed since lastFlush, and that   *)
(* flush takes the whole buffer; with a worker that is never late and no   *)
(* shutdown, entries that do not reach BatchSize are flushed once          *)
(* 2*BatchInterval has passed since the last submission.                   *)
TimeTriggerWithinTwoIntervals ==
    /\ []( ( /\ pc = "select" /\ queue = << >> /\ ~tickerC /\ ~quit
             /\ waited >= 2 * cfg.BatchInterval )
           => buffer = << >> )
    /\ [][ (pc = "tickUnlock" /\ pc' /= pc)
             => (pc' = "flush"
                   <=> (Len(buffer) > 0 /\ sinceFlush >= cfg.BatchInterval)) ]_vars
    /\ [][ (pc = "flush" /\ pc' /= pc /\ buffer /= << >>)
             => (bufferCopy' = buffer /\ buffer' = << >>) ]_vars

\* BatchSize-1 entries were flushed by a tick, BatchInterval or more after
\* the last submission
TimeTriggerWitness ==
    /\ pc = "select" /\ buffer = << >> /\ queue = << >> /\ ~quit
    /\ cfg.BatchSize > 1 /\ sent /= << >>
    /\ Cardinality(PayloadStamps(sent[Len(sent)])) = cfg.BatchSize - 1
    /\ waited >= cfg.BatchInterval

\* The timestamps of the values of every payload handed to the sender
SentStamps == UNION { PayloadStamps(sent[b]) : b \in 1..Len(sent) }

(* C6, as claimed: when the worker has terminated, every entry enqueued    *)
(* before the shutdown signal was given is in a payload handed to the      *)
(* sender.                                                                 *)
ShutdownDrainsQueue ==
    pc = "done" => \A ts \in 1..quitSeq : IntToString(ts) \in SentStamps

(* C7, as claimed: when sendWithRetry returns, it has made N attempts of   *)
(* which the first N-1 failed, it slept RetryDelay*1, ..., RetryDelay*(N-1)*)
(* between them, it reports the result of the N-th, and it reports failure *)
(* only after RetryCount+1 attempts.                                       *)
RetriesUntilSuccess ==
    (pc = "flushRet" /\ cfg.RetryCount >= 0) =>
        LET n == Len(attempts)
        IN  /\ n >= 1 /\ n <= cfg.RetryCount + 1
            /\ \A i \in 1..(n - 1) : ~attempts[i]
            /\ ok = attempts[n]
            /\ ~ok => n = cfg.RetryCount + 1
            /\ sleeps = [i \in 1..(n - 1) |-> cfg.RetryDelay * i]

RECURSIVE CountValues(_)
CountValues(p) ==
    IF p = {} THEN 0
    ELSE LET st == CHOOSE x \in p : TRUE
         IN  Len(st.Values) + CountValues(p \ { st })

\* No entry is in two values, of one payload or of two
FlushedAtMostOnce ==
    /\ \A b \in 1..Len(sent) :
           CountValues(sent[b]) = Cardinality(PayloadStamps(sent[b]))
    /\ \A b1, b2 \in 1..Len(sent) :
           b1 /= b2 => PayloadStamps(sent[b1]) \cap PayloadStamps(sent[b2]) = {}
    /\ EntryStamps(buffer) \cap SentStamps = {}

(* C8: every entry the worker appends to the buffer is eventually in a     *)
(* payload handed to the sender, with or without a shutdown signal, and no *)
(* entry is ever in two payloads or twice in one.                          *)
BufferedEventuallyFlushedOnce ==
    /\ []FlushedAtMostOnce
    /\ \A ts \in 1..MaxLogs :
           (IntToString(ts) \in EntryStamps(buffer))
               ~> (IntToString(ts) \in SentStamps)

\* An entry left the buffer by a tick's flush and no shutdown was signalled
BufferedFlushedWitness ==
    /\ ~quit /\ cfg.BatchSize > 1 /\ sent /= << >>
    /\ Cardinality(PayloadStamps(sent[Len(sent)])) < cfg.BatchSize
    /\ buffer = << >>

\* The value flush makes of an entry
ValueOf(e) == << IntToString(e.Timestamp), e.Line >>

\* The streams of payload p that hold the value of entry e
StreamsOf(p, e) == { st \in p : \E i \in 1..Len(st.Values) : st.Values[i] = ValueOf(e) }

\* Payload p groups the snapshot snap by equality of the label maps
GroupedByLabels(p, snap) ==
    /\ \A i \in 1..Len(snap) : Cardinality(StreamsOf(p, snap[i])) = 1
    /\ CountValues(p) = Len(snap)
    /\ \A i, j \in 1..Len(snap) :
           (StreamsOf(p, snap[i]) = StreamsOf(p, snap[j]))
               <=> (snap[i].Labels = snap[j].Labels)
    /\ \A i \in 1..Len(snap) :
           \A st \in StreamsOf(p, snap[i]) : st.Stream = snap[i].Labels

(* C9, as claimed: the payload flush builds is a partition of the snapshot *)
(* by equality of the label maps: every entry gives one value in one       *)
(* stream, two entries share a stream exactly when their label maps are    *)
(* equal, and a stream's labels are the label map of its entries.          *)
FlushGroupsByLabels ==
    [][ (pc = "flushUnlock" /\ pc' /= pc)
          => GroupedByLabels(payload', bufferCopy) ]_vars

\* The entry Log enqueued last, while it is still the queue's tail
LastEntryQueued ==
    /\ lastLog.called /\ ~Discarded(lastLog.rec)
    /\ queue /= << >>
    /\ queue[Len(queue)].Timestamp = lastLog.rec.Timestamp

\* The record names a logger that Log makes a label of
HasNameLabel(rec) == rec.WithName /\ rec.Name /= << >>

\* Label k of the entry comes from field k of the record
LabelFromField(e, rec, k) == e.Labels[k] = convertToString(rec.Fields[k])

\* The static labels that a field, the logger name or the level replace
Overridden(rec) ==
    { k \in DOMAIN rec.Fields : IsPrimitive(rec.Fields[k]) }
    \cup { "level" }
    \cup (IF HasNameLabel(rec) THEN { "logger_name" } ELSE {})

\* The level label and the static labels nothing replaces
LevelAndStaticLabels(e, rec) ==
    /\ e.Labels["level"] = LevelString(rec.Level)
    /\ \A k \in (DOMAIN cfg.Labels) \ Overridden(rec) :
           k \in DOMAIN e.Labels /\ e.Labels[k] = cfg.Labels[k]

----------------------------------------------------------------------------
\* The worker is in the flush the quit case called, after the copy
InFinalSend ==
    ret = "exit" /\ pc \in { "retryLoop", "inSend", "flushRet", "stampUnlock" }

\* The steps of the quit case: it flushes exactly when the buffer is not
\* empty, the flush takes the buffer as it is, and the worker returns when
\* the flush has returned
QuitFlushesBuffer ==
    /\ (pc = "quitUnlock" /\ pc' /= pc)
         => /\ buffer' = buffer
            /\ IF buffer = << >> THEN pc' = "done" /\ sent' = sent
                                 ELSE pc' = "flush"
    /\ (InFinalSend /\ pc' /= pc)
         => (pc' = "done" \/ InFinalSend') /\ sent' = sent /\ buffer' = << >>
    /\ (pc' = "done" /\ pc /= "done")
         => pc \in { "quitUnlock", "flushRet", "stampUnlock" }

\* A worker that has returned does nothing more
TerminatedStays ==
    pc = "done"
        => /\ pc' = "done" /\ sent' = sent /\ buffer' = buffer
           /\ Len(queue') >= Len(queue)
           /\ SubSeq(queue', 1, Len(queue)) = queue

(* C11: when the worker takes the quit case it flushes exactly when the    *)
(* buffer is not empty, that one flush hands every buffered entry to the   *)
(* sender, and the worker returns only when the flush has returned, with   *)
(* the buffer empty; after that it flushes nothing and takes nothing from  *)
(* the queue.                                                              *)
ShutdownFlushesBuffer ==
    /\ [][QuitFlushesBuffer]_vars
    /\ [][FlushTakesBuffer /\ TerminatedStays]_vars
    /\ [](pc = "done" => (buffer = << >> /\ bufferCopy = << >> /\ payload = {}))
    /\ [](InFinalSend => (sent /= << >> /\ PayloadStamps(sent[Len(sent)]) /= {}))

\* The send of the final flush has returned, the worker is about to return,
\* and an entry is left in the queue
ShutdownFlushWitness ==
    /\ pc = "stampUnlock" /\ ret = "exit" /\ quit
    /\ PayloadStamps(sent[Len(sent)]) /= {}
    /\ queue /= << >>

----------------------------------------------------------------------------
\* A step in which time passes and nothing else happens
TimeStep ==
    /\ sinceFlush' = Min(sinceFlush + 1, cfg.BatchInterval)
    /\ pc' = pc /\ queue' = queue /\ quit' = quit /\ buffer' = buffer
    /\ sent' = sent /\ bufferMutex' = bufferMutex

\* lastFlush is set in this step: time.Since(lastFlush) falls to zero
LastFlushSet == sinceFlush' = 0 /\ sinceFlush /= 0

(* C12: lastFlush is set only by the step of flush that follows a send     *)
(* reported successful, with the mutex held; the end of a flush whose send *)
(* failed, and every other step, leave it as it is (the time since         *)
(* lastFlush changes only as time passes), so a tick compares the time     *)
(* since the last successful flush, or since construction, with            *)
(* BatchInterval.                                                          *)
LastFlushOnlyOnSuccess ==
    /\ [][ (pc = "flushRet" /\ pc' /= pc)
             => IF ok THEN sinceFlush' = 0 /\ bufferMutex' = "worker"
                      ELSE sinceFlush' = sinceFlush ]_vars
    /\ [][ LastFlushSet => (pc = "flushRet" /\ ok /\ pc' = "stampUnlock") ]_vars
    /\ [][ ~(pc = "flushRet" /\ pc' /= pc)
             => (sinceFlush' = sinceFlush \/ TimeStep) ]_vars
    /\ [][ (pc = "tickUnlock" /\ pc' /= pc)
             => (pc' = "flush"
                   <=> (buffer /= << >> /\ sinceFlush >= cfg.BatchInterval)) ]_vars

\* A flush ends after a failed send, with lastFlush in the past
LastFlushKeptWitness ==
    /\ pc = "flushRet" /\ ~ok /\ attempts = << FALSE >>
    /\ sinceFlush > 0 /\ sent /= << >>

----------------------------------------------------------------------------
\* The timestamps of the entries that are on their way to a batch
PendingStamps ==
    { IntToString(e.Timestamp) : e \in PipelineEntries } \cup PayloadStamps(payload)

\* No entry handed to the sender is on its way to another batch
SentNotPending == SentStamps \cap PendingStamps = {}

\* No entry is in two of the batches handed to the sender
BatchesDisjoint ==
    \A b1, b2 \in 1..Len(sent) :
        b1 /= b2 => PayloadStamps(sent[b1]) \cap PayloadStamps(sent[b2]) = {}

(* C13: the entries of a batch handed to the sender are neither in the     *)
(* buffer nor in the queue, whether its send fails or not, and are in no   *)
(* later batch; a flush whose send failed returns without touching the     *)
(* buffer, the queue or the batches, and the worker goes back to its loop  *)
(* (or returns, when the flush was the final one).                         *)
FailedBatchDropped ==
    /\ [](SentNotPending /\ BatchesDisjoint)
    /\ [][ (pc = "flushRet" /\ ~ok /\ pc' /= pc)
             => /\ pc' = (IF ret = "exit" THEN "done" ELSE "select")
                /\ buffer' = buffer /\ queue' = queue /\ sent' = sent
                /\ bufferMutex' = "free" ]_vars

\* A send has failed, the flush is about to return into the loop, and a
\* later entry waits in the queue
FailedBatchWitness ==
    /\ pc = "flushRet" /\ ~ok /\ attempts = << FALSE >> /\ ret = "loop"
    /\ PayloadStamps(sent[Len(sent)]) /= {}
    /\ queue /= << >>

----------------------------------------------------------------------------
\* Batch b holds the entry that Log accepted as its ts-th
InBatch(ts, b) == IntToString(ts) \in PayloadStamps(sent[b])

\* Within every stream of batch b the values are in the order of acceptance
StreamsInOrder(b) ==
    \A st \in sent[b] : \A i, j \in 1..Len(st.Values) :
        \A t1, t2 \in 1..seq :
            ( /\ st.Values[i][1] = IntToString(t1)
              /\ st.Values[j][1] = IntToString(t2)
              /\ t1 < t2 ) => i < j

(* C14: of two entries accepted one after the other, the first is never in *)
(* a later batch than the second, and when both are in one stream of one   *)
(* batch the value of the first comes before the value of the second.      *)
ArrivalOrderPreserved ==
    /\ \A t1, t2 \in 1..seq : \A b1, b2 \in 1..Len(sent) :
           (t1 < t2 /\ InBatch(t1, b1) /\ InBatch(t2, b2)) => b1 <= b2
    /\ \A b \in 1..Len(sent) : StreamsInOrder(b)

\* A batch holds a stream with the first and the third entry, in that order,
\* and another stream with the second
ArrivalOrderWitness ==
    \E b \in 1..Len(sent) : \E st \in sent[b] :
        /\ Len(st.Values) = 2
        /\ st.Values[1][1] = IntToString(1) /\ st.Values[2][1] = IntToString(3)
        /\ InBatch(2, b)

----------------------------------------------------------------------------
\* The worker is inside sendWithRetry: the loop, a sleep or an HTTP attempt
InSendWithRetry == pc \in { "retryLoop", "inSend" }

\* The worker is between a Lock and its Unlock: after the append, after the
\* reads of the tick and quit cases, after the copy-and-clear, after the
\* lastFlush update
InCriticalSection ==
    pc \in { "appendUnlock", "tickUnlock", "quitUnlock", "flushUnlock",
             "stampUnlock" }

(* C15: the mutex is free whenever the worker is inside sendWithRetry; it  *)
(* is held exactly between a Lock and the Unlock that follows it, and the  *)
(* worker's next step after an acquisition releases it.                    *)
MutexFreeDuringSend ==
    /\ [](InSendWithRetry => bufferMutex = "free")
    /\ [](bufferMutex = "worker" <=> InCriticalSection)
    /\ [][ (bufferMutex = "worker" /\ pc' /= pc) => bufferMutex' = "free" ]_vars

\* An HTTP attempt is in progress, time has passed and an entry waits in the
\* queue
MutexFreeWitness ==
    /\ pc = "inSend" /\ bufferMutex = "free"
    /\ PayloadStamps(sent[Len(sent)]) /= {}
    /\ queue /= << >> /\ sinceFlush > 0

----------------------------------------------------------------------------
\* A flush has taken the buffer and has not returned
FlushInProgress ==
    pc \in { "flushUnlock", "send", "retryLoop", "inSend", "flushRet",
             "stampUnlock" }

\* The queue lost nothing in this step
QueueKept == Len(queue') >= Len(queue) /\ SubSeq(queue', 1, Len(queue)) = queue

(* C16: the one worker runs one flush at a time: flush is called from the  *)
(* three cases of the loop only, never from inside a flush, and one flush  *)
(* hands one batch to the sender; while a flush is in progress the buffer  *)
(* is empty and stays empty, and the queue loses no entry: what Log        *)
(* enqueues meanwhile stays there until the flush has returned.            *)
OneFlushAtATime ==
    /\ [](FlushInProgress => buffer = << >>)
    /\ [][ FlushInProgress => (QueueKept /\ buffer' = << >>) ]_vars
    /\ [][ (pc' = "flush" /\ pc /= "flush")
             => pc \in { "appendUnlock", "tickUnlock", "quitUnlock" } ]_vars
    /\ [][ sent' /= sent
             => (pc = "send" /\ pc' = "retryLoop" /\ Len(sent') = Len(sent) + 1) ]_vars
    /\ [][ (pc' = "select" /\ FlushInProgress)
             => pc \in { "flushRet", "stampUnlock" } ]_vars

\* Two entries were accepted during a send and wait in the queue
OneFlushWitness ==
    /\ pc = "inSend" /\ buffer = << >> /\ Len(queue) >= 2
    /\ lastLog.called /\ ~Discarded(lastLog.rec)
    /\ queue[Len(queue)].Timestamp = lastLog.rec.Timestamp

----------------------------------------------------------------------------
\* Field k of the record became a label of the entry: its stringified value
\* is the value of the label with its key
BecameLabel(e, rec, k) ==
    /\ IsPrimitive(rec.Fields[k])
    /\ k \in DOMAIN e.Labels
    /\ e.Labels[k] = convertToString(rec.Fields[k])

\* The fields of the record that did not become labels
NotPromoted(e, rec) ==
    [k \in { f \in DOMAIN rec.Fields : ~BecameLabel(e, rec, f) } |-> rec.Fields[k]]

\* The line whose trailing JSON holds the fields rest, and no other
LineWithFields(rec, rest) ==
    LET text == MessageAndError(Format(rec))
    IN  IF DOMAIN rest = {} THEN text
        ELSE text \o (IF Len(text) > 0 THEN << " ", "|", " " >> ELSE << >>)
             \o MarshalFields(rest)

(* C17, as claimed: in the entry of an accepted record whose fields        *)
(* json.Marshal supports, the trailing JSON of the line holds exactly the  *)
(* fields that did not become labels: those whose value is not primitive   *)
(* and those whose key is the key of a label with another value.           *)
FieldsLabelOrJson ==
    (LastEntryQueued /\ ~MarshalFieldsFails(lastLog.rec.Fields)) =>
        LET e == queue[Len(queue)]
            rec == lastLog.rec
        IN  e.Line = LineWithFields(rec, NotPromoted(e, rec))

----------------------------------------------------------------------------
\* Sequence s starts with sequence p
StartsWith(s, p) == Len(s) >= Len(p) /\ SubSeq(s, 1, Len(p)) = p

(* C18, as claimed: the entry of an accepted record with a logger name has *)
(* a line that starts with "[<name>]: " and the message, and the label     *)
(* logger_name is the name as the record gave it; the entry of a record    *)
(* without a name has a line that starts with the message and no label     *)
(* logger_name, unless a static label or a field gives one.                *)
NamePrefixesLineOnly ==
    LastEntryQueued =>
        LET e == queue[Len(queue)]
            rec == lastLog.rec
        IN  /\ (rec.WithName /\ rec.Name /= << >>)
                 => /\ StartsWith(e.Line, << "[" >> \o rec.Name \o << "]", ":", " " >>
                                          \o rec.Message)
                    /\ e.Labels["logger_name"] = rec.Name
            /\ rec.Name = << >>
                 => /\ StartsWith(e.Line, rec.Message)
                    /\ "logger_name" \in DOMAIN e.Labels
                         => "logger_name" \in (DOMAIN cfg.Labels) \cup (DOMAIN rec.Fields)

----------------------------------------------------------------------------
(* C19: the buffer never holds more than BatchSize entries, it holds fewer *)
(* whenever the worker is at its select, and every batch handed to the     *)
(* sender holds at least one entry and at most BatchSize entries.          *)
BufferWithinBatchSize ==
    cfg.BatchSize >= 1 =>
        /\ Len(buffer) <= cfg.BatchSize
        /\ pc = "select" => Len(buffer) < cfg.BatchSize
        /\ \A b \in 1..Len(sent) :
               CountValues(sent[b]) >= 1 /\ CountValues(sent[b]) <= cfg.BatchSize

\* A batch of BatchSize entries and a batch of fewer were handed to the
\* sender
BufferWithinWitness ==
    /\ cfg.BatchSize > 1
    /\ \E b1, b2 \in 1..Len(sent) :
           /\ CountValues(sent[b1]) = cfg.BatchSize
           /\ CountValues(sent[b2]) < cfg.BatchSize

----------------------------------------------------------------------------
\* Some attempt of the batch being flushed got a status in [200, 300)
Acknowledged == \E i \in 1..Len(attempts) : attempts[i]

(* C20, as claimed: whatever RetryCount is, when sendWithRetry returns it  *)
(* has made at least one attempt, it reports success only when an attempt  *)
(* was acknowledged, and flush sets lastFlush only for such a batch.       *)
SuccessMeansAcknowledged ==
    /\ pc = "flushRet" => (Len(attempts) >= 1 /\ (ok => Acknowledged))
    /\ pc = "stampUnlock" => Acknowledged

====
